---- MODULE Spec2Model ----
(***************************************************************************)
(* A model of vulkan_platform_py: the ExecutionPlatform value, its         *)
(* construction (directly and by auto_detect from the three probes) and    *)
(* its read operations get_active_hardware and __str__.                    *)
(*                                                                         *)
(* A Python exception is a record [type, msg]; an operation's outcome is   *)
(* either a returned value or a raised exception.  A hardware mapping is a *)
(* function from the keys it holds to lists, together with the flag        *)
(* autoviv, TRUE when the mapping is the defaultdict(list) of the default  *)
(* factory (a missing key is then inserted with [] when it is read).       *)
(***************************************************************************)
EXTENDS Naturals, Sequences, FiniteSets, TLC

VARIABLES platform, built, op, outcome, stdout

vars == <<platform, built, op, outcome, stdout>>

(***************************************************************************)
(* Bounds of the model.                                                    *)
(***************************************************************************)
\* Longest list the GPU probe returns.
MaxGPUs == 2
\* Longest list under one key of an explicitly passed hardware mapping.
MaxList == 2

(***************************************************************************)
(* The enumerations: every member's value is its name (StrEnumMeta).       *)
(***************************************************************************)
OperatingSystem == {"Linux", "Darwin", "Windows"}

HardwareType == {"CPU", "GPU"}

HardwareVendor == {"GenuineIntel", "Nvidia"}

VulkanBackend == {"MoltenVK", "SwiftShader", "Vulkan"}

\* HardwareInformation(hardware_type, hardware_vendor, hardware_model, driver_version)
HardwareInformation(t, v, m, d) ==
    [hardware_type |-> t, hardware_vendor |-> v, hardware_model |-> m, driver_version |-> d]

(***************************************************************************)
(* Outcomes and exceptions.                                                *)
(***************************************************************************)
None == [none |-> TRUE]

Return(v) == [status |-> "ok", value |-> v, error |-> None]

Raise(e) == [status |-> "raised", value |-> None, error |-> e]

\* A str an operation returns to its caller.
StrValue(s) == [str |-> s]

\* Enum.__call__ on a value that is no member's value:
\* ValueError("'<value>' is not a valid <Class>").
NotAValid(s, cls) == [type |-> "ValueError", msg |-> "'" \o s \o "' is not a valid " \o cls]

\* dict.__getitem__ on a missing key of a plain dict.
KeyError(k) == [type |-> "KeyError", msg |-> k]

\* list.__getitem__(0) on an empty list.
IndexError == [type |-> "IndexError", msg |-> "list index out of range"]

\* Cls(s): the member whose value is s, by exact match.
EnumLookup(members, cls, s) ==
    IF s \in members THEN Return(s) ELSE Raise(NotAValid(s, cls))

(***************************************************************************)
(* The hardware mapping.                                                   *)
(***************************************************************************)
\* The mapping with no key: defaultdict(list) as the default factory makes
\* it, or an empty plain dict.
EmptyMapping == [k \in {} |-> <<>>]

\* available_hardware[k].  A key the mapping holds gives its list.  A
\* missing key of the defaultdict is inserted with the empty list, which is
\* the value; a missing key of a plain dict raises KeyError.  hw is the
\* mapping after the lookup.
GetItem(hw, autoviv, k) ==
    IF k \in DOMAIN hw
    THEN [ok |-> TRUE, value |-> hw[k], hw |-> hw]
    ELSE IF autoviv
         THEN [ok |-> TRUE, value |-> <<>>, hw |-> (k :> <<>>) @@ hw]
         ELSE [ok |-> FALSE, value |-> <<>>, hw |-> hw]

\* execution_platform.available_hardware[k].append(info), on the platform
\* auto_detect has just made (its mapping is the default factory's).
AppendTo(p, k, info) ==
    LET g == GetItem(p.available_hardware, p.autoviv, k)
    IN  [p EXCEPT !.available_hardware = (k :> Append(g.value, info)) @@ g.hw]

(***************************************************************************)
(* Construction.                                                           *)
(***************************************************************************)
\* The caller holds no platform.
NoPlatform == None

\* Variant: the probe's string is kept without the enum lookup.
ReadOperatingSystem_Lenient(s) == Return(s)

\* The default factory of operating_system: OperatingSystem(platform.system()).
ReadOperatingSystem(s) == EnumLookup(OperatingSystem, "OperatingSystem", s)

\* cls(vulkan_backend=backend): operating_system and available_hardware
\* come from their default factories; osProbe is what platform.system()
\* returns.
ConstructDefault(backend, osProbe) ==
    LET o == ReadOperatingSystem(osProbe)
    IN  IF o.status = "raised"
        THEN Raise(o.error)
        ELSE Return([vulkan_backend |-> backend,
                     operating_system |-> o.value,
                     autoviv |-> TRUE,
                     available_hardware |-> EmptyMapping])

\* cls(vulkan_backend=backend, operating_system=os, available_hardware=hw)
\* with members of the enumerations and a plain dict of lists.
ConstructExplicit(backend, os, hw) ==
    Return([vulkan_backend |-> backend,
            operating_system |-> os,
            autoviv |-> FALSE,
            available_hardware |-> hw])

(***************************************************************************)
(* auto_detect.                                                            *)
(***************************************************************************)
\* The entry made for one GPU the probe reports.
GpuInfo(gpu) == HardwareInformation("GPU", "Nvidia", gpu.name, gpu.driver)

\* Variant: each entry is inserted at the front of the list.
AppendGPUs_Reversed(p, gpus) ==
    IF gpus = <<>>
    THEN p
    ELSE [p EXCEPT !.available_hardware =
             ("GPU" :> [i \in 1..Len(gpus) |-> GpuInfo(gpus[Len(gpus) + 1 - i])]) @@ @]

\* for nvidia_gpu in nvidia_gpus: ...[HardwareType.GPU].append(gpu_info)
RECURSIVE AppendGPUs(_, _)
AppendGPUs(p, gpus) ==
    IF gpus = <<>>
    THEN p
    ELSE AppendGPUs(AppendTo(p, "GPU", GpuInfo(Head(gpus))), Tail(gpus))

\* Variant: an unknown vendor string defaults to GenuineIntel.
ClassifyVendor_Default(s) ==
    Return(IF s \in HardwareVendor THEN s ELSE "GenuineIntel")

\* HardwareVendor(raw_cpu_info["vendor_id_raw"])
ClassifyVendor(s) == EnumLookup(HardwareVendor, "HardwareVendor", s)

\* Variant: the CPU entry's driver version is left empty.
CpuInfo_NoDriver(vendor, brand) == HardwareInformation("CPU", vendor, brand, "")

\* The entry made for the CPU.
CpuInfo(vendor, brand) == HardwareInformation("CPU", vendor, brand, "N/A")

\* Variant: a final else gives every other operating system SwiftShader.
InferBackend_ElseSwiftShader(p) ==
    IF p.operating_system = "Darwin"
    THEN [p EXCEPT !.vulkan_backend = "MoltenVK"]
    ELSE IF p.operating_system = "Linux"
         THEN [p EXCEPT !.vulkan_backend = "Vulkan"]
         ELSE [p EXCEPT !.vulkan_backend = "SwiftShader"]

\* The backend by operating system; no case for Windows.
InferBackend(p) ==
    IF p.operating_system = "Darwin"
    THEN [p EXCEPT !.vulkan_backend = "MoltenVK"]
    ELSE IF p.operating_system = "Linux"
         THEN [p EXCEPT !.vulkan_backend = "Vulkan"]
         ELSE p

\* Variant: a vendor that fails to classify is swallowed and the platform
\* built so far is returned.
AutoDetect_Degraded(osProbe, gpus, cpu) ==
    LET c == ConstructDefault("Vulkan", osProbe)
    IN  IF c.status = "raised"
        THEN Raise(c.error)
        ELSE LET p1 == AppendGPUs(c.value, gpus)
                 v  == ClassifyVendor(cpu.vendor_id_raw)
             IN  IF v.status = "raised"
                 THEN Return(p1)
                 ELSE Return(InferBackend(AppendTo(p1, "CPU", CpuInfo(v.value, cpu.brand_raw))))

\* ExecutionPlatform.auto_detect(): osProbe is what platform.system()
\* returns, gpus what GPUtil.getGPUs() returns, cpu what get_cpu_info()
\* returns.  An exception of a step leaves auto_detect at once.
AutoDetect(osProbe, gpus, cpu) ==
    LET c == ConstructDefault("Vulkan", osProbe)
    IN  IF c.status = "raised"
        THEN Raise(c.error)
        ELSE LET p1 == AppendGPUs(c.value, gpus)
                 v  == ClassifyVendor(cpu.vendor_id_raw)
             IN  IF v.status = "raised"
                 THEN Raise(v.error)
                 ELSE Return(InferBackend(AppendTo(p1, "CPU", CpuInfo(v.value, cpu.brand_raw))))

(***************************************************************************)
(* The read operations.  Each gives the outcome and the platform as the    *)
(* call leaves it.                                                         *)
(***************************************************************************)
\* get_active_hardware()
GetActiveHardware(p) ==
    LET g == GetItem(p.available_hardware, p.autoviv, "GPU")
    IN  IF ~g.ok
        THEN [outcome |-> Raise(KeyError("GPU")), platform |-> p]
        ELSE IF g.value # <<>>
             THEN [outcome |-> Return(g.value[1]),
                   platform |-> [p EXCEPT !.available_hardware = g.hw]]
             ELSE LET c == GetItem(g.hw, p.autoviv, "CPU")
                  IN  IF ~c.ok
                      THEN [outcome |-> Raise(KeyError("CPU")),
                            platform |-> [p EXCEPT !.available_hardware = g.hw]]
                      ELSE IF c.value = <<>>
                           THEN [outcome |-> Raise(IndexError),
                                 platform |-> [p EXCEPT !.available_hardware = c.hw]]
                           ELSE [outcome |-> Return(c.value[1]),
                                 platform |-> [p EXCEPT !.available_hardware = c.hw]]

\* __str__(): the three values joined by "/"; an exception of
\* get_active_hardware leaves it.
Str(p) ==
    LET a == GetActiveHardware(p)
    IN  IF a.outcome.status = "raised"
        THEN a
        ELSE [outcome |-> Return(StrValue(p.operating_system \o "/"
                                          \o a.outcome.value.hardware_vendor \o "/"
                                          \o p.vulkan_backend)),
              platform |-> a.platform]

\* repr() of a str without quotes in it.
ReprStr(s) == "'" \o s \o "'"

\* repr() of a HardwareInformation: the dataclass's, its enum members by
\* name (StrEnum.__repr__).
ReprInfo(h) ==
    "HardwareInformation(hardware_type=" \o h.hardware_type
    \o ", hardware_vendor=" \o h.hardware_vendor
    \o ", hardware_model=" \o ReprStr(h.hardware_model)
    \o ", driver_version=" \o ReprStr(h.driver_version) \o ")"

\* The reprs of a list's entries joined by ", ".
RECURSIVE JoinRepr(_)
JoinRepr(l) ==
    IF l = <<>>
    THEN ""
    ELSE IF Len(l) = 1
         THEN ReprInfo(l[1])
         ELSE ReprInfo(l[1]) \o ", " \o JoinRepr(Tail(l))

\* str() of a list of HardwareInformation.
ReprList(l) == "[" \o JoinRepr(l) \o "]"

\* display_summary(): the lines printed until it returns None or an
\* exception leaves it, and the platform as the call leaves it.
DisplaySummary(p) ==
    LET l1 == "Detected OS     -> " \o p.operating_system
        g  == GetItem(p.available_hardware, p.autoviv, "GPU")
        l2 == "Detected GPUs   -> " \o ReprList(g.value)
        c  == GetItem(g.hw, p.autoviv, "CPU")
        l3 == "Detected CPU    -> " \o c.value[1].hardware_model
        l4 == "Vulkan backend  -> " \o p.vulkan_backend
        l5 == IF g.value # <<>>
              THEN "Shaders will most likely be executed on " \o g.value[1].hardware_model
              ELSE "No GPU detected, shaders will be executed on CPU"
    IN  IF ~g.ok
        THEN [outcome |-> Raise(KeyError("GPU")), platform |-> p, stdout |-> <<l1>>]
        ELSE IF ~c.ok
             THEN [outcome |-> Raise(KeyError("CPU")),
                   platform |-> [p EXCEPT !.available_hardware = g.hw],
                   stdout |-> <<l1, l2>>]
             ELSE IF c.value = <<>>
                  THEN [outcome |-> Raise(IndexError),
                        platform |-> [p EXCEPT !.available_hardware = c.hw],
                        stdout |-> <<l1, l2>>]
                  ELSE [outcome |-> Return(None),
                        platform |-> [p EXCEPT !.available_hardware = c.hw],
                        stdout |-> <<l1, l2, l3, l4, l5>>]

(***************************************************************************)
(* What the probes return and what a caller passes.                        *)
(***************************************************************************)
SeqUpTo(S, n) == UNION {[1..k -> S] : k \in 0..n}

OsProbeValues == {"Linux", "Darwin", "Windows", "Java", "linux"}

GpuProbeEntries ==
    {[name |-> "Apple M2", driver |-> "N/A"], [name |-> "RTX 3090", driver |-> "535.54"]}

GpuProbeValues == SeqUpTo(GpuProbeEntries, MaxGPUs)

CpuProbeValues ==
    [vendor_id_raw : {"GenuineIntel", "Nvidia", "AuthenticAMD", "genuineintel"},
     brand_raw : {"Intel Xeon", "Intel Core i9"}]

ExplicitEntries ==
    {HardwareInformation("GPU", "Nvidia", "RTX 3090", "535.54"),
     HardwareInformation("GPU", "GenuineIntel", "Iris Xe", "31.0"),
     HardwareInformation("CPU", "GenuineIntel", "Intel Xeon", "N/A")}

ExplicitMappings ==
    UNION {[K -> SeqUpTo(ExplicitEntries, MaxList)] : K \in SUBSET HardwareType}

(***************************************************************************)
(* The state machine: one platform is made, then read.                     *)
(*   platform  the ExecutionPlatform the caller holds, or NoPlatform       *)
(*   built     how it was made, and from which inputs                      *)
(*   op        the operation called last                                   *)
(*   outcome   what that call returned or raised                           *)
(*   stdout    the lines that call printed                                 *)
(***************************************************************************)
Init ==
    /\ platform = NoPlatform
    /\ built = [via |-> "none"]
    /\ op = "none"
    /\ outcome = [status |-> "none", value |-> None, error |-> None]
    /\ stdout = <<>>

Made(r) == IF r.status = "ok" THEN r.value ELSE NoPlatform

CallAutoDetect ==
    /\ op = "none"
    /\ \E o \in OsProbeValues, g \in GpuProbeValues, c \in CpuProbeValues :
          /\ built' = [via |-> "auto_detect", os |-> o, gpus |-> g, cpu |-> c]
          /\ outcome' = AutoDetect(o, g, c)
          /\ platform' = Made(AutoDetect(o, g, c))
    /\ op' = "auto_detect"
    /\ stdout' = <<>>

CallConstructDefault ==
    /\ op = "none"
    /\ \E b \in VulkanBackend, o \in OsProbeValues :
          /\ built' = [via |-> "default", backend |-> b, os |-> o]
          /\ outcome' = ConstructDefault(b, o)
          /\ platform' = Made(ConstructDefault(b, o))
    /\ op' = "construct"
    /\ stdout' = <<>>

CallConstructExplicit ==
    /\ op = "none"
    /\ \E b \in VulkanBackend, o \in OperatingSystem, hw \in ExplicitMappings :
          /\ built' = [via |-> "explicit", backend |-> b, os |-> o, hw |-> hw]
          /\ outcome' = ConstructExplicit(b, o, hw)
          /\ platform' = Made(ConstructExplicit(b, o, hw))
    /\ op' = "construct"
    /\ stdout' = <<>>

CallGetActiveHardware ==
    /\ platform # NoPlatform
    /\ op' = "get_active_hardware"
    /\ outcome' = GetActiveHardware(platform).outcome
    /\ platform' = GetActiveHardware(platform).platform
    /\ stdout' = <<>>
    /\ UNCHANGED built

CallStr ==
    /\ platform # NoPlatform
    /\ op' = "__str__"
    /\ outcome' = Str(platform).outcome
    /\ platform' = Str(platform).platform
    /\ stdout' = <<>>
    /\ UNCHANGED built

CallDisplaySummary ==
    /\ platform # NoPlatform
    /\ op' = "display_summary"
    /\ outcome' = DisplaySummary(platform).outcome
    /\ platform' = DisplaySummary(platform).platform
    /\ stdout' = DisplaySummary(platform).stdout
    /\ UNCHANGED built

Next ==
    \/ CallAutoDetect
    \/ CallConstructDefault
    \/ CallConstructExplicit
    \/ CallGetActiveHardware
    \/ CallStr
    \/ CallDisplaySummary

Spec == Init /\ [][Next]_vars

(***************************************************************************)
(* What the claims speak of.                                               *)
(***************************************************************************)
\* The entries platform p holds for hardware type k: none when the mapping
\* has no such key.
Held(p, k) ==
    IF k \in DOMAIN p.available_hardware THEN p.available_hardware[k] ELSE <<>>

\* The entry the documentation names active: the first GPU if any, else
\* the first CPU.
FirstGpuElseFirstCpu(p) ==
    IF Held(p, "GPU") # <<>> THEN Held(p, "GPU")[1] ELSE Held(p, "CPU")[1]

\* The backend the documentation gives for a supported operating system.
BackendOf(os) == IF os = "Darwin" THEN "MoltenVK" ELSE "Vulkan"

Detected == built.via = "auto_detect" /\ platform # NoPlatform

(***************************************************************************)
(* C1: a platform auto_detect returned has the backend its operating       *)
(* system alone gives: MoltenVK on Darwin, Vulkan on Linux and on Windows, *)
(* whatever the GPU and CPU probes returned; never SwiftShader.            *)
(***************************************************************************)
C1_BackendByOperatingSystem ==
    Detected =>
        /\ platform.operating_system = built.os
        /\ built.os \in OperatingSystem
        /\ built.os = "Darwin" => platform.vulkan_backend = "MoltenVK"
        /\ built.os = "Linux" => platform.vulkan_backend = "Vulkan"
        /\ built.os = "Windows" => platform.vulkan_backend = "Vulkan"
        /\ platform.vulkan_backend # "SwiftShader"

C1_Witness ==
    /\ op = "auto_detect"
    /\ outcome.status = "ok"
    /\ built.os = "Windows"
    /\ Len(built.gpus) = 2
    /\ built.cpu.vendor_id_raw = "Nvidia"
    /\ platform.vulkan_backend = "Vulkan"

(***************************************************************************)
(* C2: on a platform with at least one hardware entry get_active_hardware  *)
(* returns the first GPU entry when there is a GPU entry, and the first    *)
(* CPU entry when there is none.                                           *)
(***************************************************************************)
C2_ActiveHardware ==
    (/\ op = "get_active_hardware"
     /\ Len(Held(platform, "GPU")) + Len(Held(platform, "CPU")) > 0)
    => outcome = Return(FirstGpuElseFirstCpu(platform))

(***************************************************************************)
(* C3: on a platform with no GPU entry and no CPU entry                    *)
(* get_active_hardware fails with the error NoHardwareDetected.            *)
(***************************************************************************)
C3_NoHardwareDetected ==
    (/\ op = "get_active_hardware"
     /\ Held(platform, "GPU") = <<>>
     /\ Held(platform, "CPU") = <<>>)
    => /\ outcome.status = "raised"
       /\ outcome.error.type = "NoHardwareDetected"

(***************************************************************************)
(* C4, as claimed: every CPU vendor string other than "GenuineIntel"       *)
(* (also "Nvidia") makes the CPU classification of auto_detect fail with   *)
(* the unrecognized-vendor error.                                          *)
(***************************************************************************)
C4_OnlyGenuineIntel ==
    (/\ op = "auto_detect"
     /\ built.os \in OperatingSystem
     /\ built.cpu.vendor_id_raw # "GenuineIntel")
    => /\ outcome.status = "raised"
       /\ outcome.error = NotAValid(built.cpu.vendor_id_raw, "HardwareVendor")

(***************************************************************************)
(* C4, amended: the CPU classification of auto_detect fails with the       *)
(* unrecognized-vendor error for every vendor string that is neither       *)
(* "GenuineIntel" nor "Nvidia"; each of these two yields a CPU entry of    *)
(* that vendor.                                                            *)
(***************************************************************************)
C4_OnlyMembersClassified ==
    (op = "auto_detect" /\ built.os \in OperatingSystem)
    => /\ built.cpu.vendor_id_raw \notin {"GenuineIntel", "Nvidia"}
          => /\ outcome.status = "raised"
             /\ outcome.error = NotAValid(built.cpu.vendor_id_raw, "HardwareVendor")
             /\ platform = NoPlatform
       /\ built.cpu.vendor_id_raw \in {"GenuineIntel", "Nvidia"}
          => /\ outcome.status = "ok"
             /\ Len(Held(platform, "CPU")) = 1
             /\ Held(platform, "CPU")[1].hardware_vendor = built.cpu.vendor_id_raw

C4_Witness ==
    /\ op = "auto_detect"
    /\ built.os = "Linux"
    /\ built.cpu.vendor_id_raw = "genuineintel"
    /\ outcome.status = "raised"
    /\ outcome.error.msg = "'genuineintel' is not a valid HardwareVendor"

(***************************************************************************)
(* C5: when the OS probe returns a string that is not exactly "Linux",     *)
(* "Darwin" or "Windows", auto_detect fails with the                       *)
(* unrecognized-operating-system error and returns no platform, also when  *)
(* the CPU vendor is unrecognized too.                                     *)
(***************************************************************************)
C5_UnrecognizedOperatingSystem ==
    (op = "auto_detect" /\ built.os \notin {"Linux", "Darwin", "Windows"})
    => /\ outcome.status = "raised"
       /\ outcome.error = NotAValid(built.os, "OperatingSystem")
       /\ outcome.value = None
       /\ platform = NoPlatform

C5_Witness ==
    /\ op = "auto_detect"
    /\ built.os = "linux"
    /\ built.cpu.vendor_id_raw = "AuthenticAMD"
    /\ outcome.status = "raised"
    /\ outcome.error.msg = "'linux' is not a valid OperatingSystem"

(***************************************************************************)
(* C6: a platform auto_detect returned holds exactly one CPU entry, of     *)
(* type CPU, with the probe's brand as model, the probe's vendor and       *)
(* driver version "N/A", whatever the GPU probe returned, and keeps it.    *)
(***************************************************************************)
C6_OneCpuEntry ==
    Detected =>
        /\ "CPU" \in DOMAIN platform.available_hardware
        /\ Len(platform.available_hardware["CPU"]) = 1
        /\ platform.available_hardware["CPU"][1] =
              [hardware_type |-> "CPU",
               hardware_vendor |-> built.cpu.vendor_id_raw,
               hardware_model |-> built.cpu.brand_raw,
               driver_version |-> "N/A"]
        /\ built.cpu.vendor_id_raw \in HardwareVendor

C6_Witness ==
    /\ op = "auto_detect"
    /\ outcome.status = "ok"
    /\ built.gpus = <<>>
    /\ built.cpu = [vendor_id_raw |-> "GenuineIntel", brand_raw |-> "Intel Xeon"]
    /\ Len(Held(platform, "CPU")) = 1
    /\ Held(platform, "CPU")[1].driver_version = "N/A"

(***************************************************************************)
(* C7: on a platform with at least one hardware entry the string rendering *)
(* is "{os}/{vendor}/{backend}", vendor being that of the first GPU if     *)
(* any, else of the first CPU.                                             *)
(***************************************************************************)
C7_CanonicalString ==
    (/\ op = "__str__"
     /\ Len(Held(platform, "GPU")) + Len(Held(platform, "CPU")) > 0)
    => /\ outcome.status = "ok"
       /\ outcome.value.str = platform.operating_system \o "/"
                               \o FirstGpuElseFirstCpu(platform).hardware_vendor \o "/"
                               \o platform.vulkan_backend

(***************************************************************************)
(* C8: a platform auto_detect returned holds one GPU entry per GPU of the  *)
(* probe, in the probe's order, each of type GPU and vendor Nvidia with    *)
(* the probe's name and driver version; an empty probe result is no error  *)
(* and gives no GPU entry; the probe's first GPU is the active hardware.   *)
(***************************************************************************)
C8_GpuListMirrorsProbe ==
    /\ Detected =>
          /\ Len(Held(platform, "GPU")) = Len(built.gpus)
          /\ \A i \in 1..Len(built.gpus) :
                Held(platform, "GPU")[i] =
                   [hardware_type |-> "GPU",
                    hardware_vendor |-> "Nvidia",
                    hardware_model |-> built.gpus[i].name,
                    driver_version |-> built.gpus[i].driver]
          /\ (op = "get_active_hardware" /\ built.gpus # <<>>)
             => /\ outcome.status = "ok"
                /\ outcome.value.hardware_type = "GPU"
                /\ outcome.value.hardware_model = built.gpus[1].name
                /\ outcome.value.driver_version = built.gpus[1].driver
    /\ (/\ op = "auto_detect"
        /\ built.os \in OperatingSystem
        /\ built.cpu.vendor_id_raw \in HardwareVendor)
       => outcome.status = "ok"

C8_Witness ==
    /\ built.via = "auto_detect"
    /\ op = "get_active_hardware"
    /\ Len(built.gpus) = 2
    /\ built.gpus[1].name = "RTX 3090"
    /\ built.gpus[2].name = "Apple M2"
    /\ outcome.status = "ok"
    /\ outcome.value.hardware_model = "RTX 3090"
    /\ Len(Held(platform, "GPU")) = 2

(***************************************************************************)
(* C9: auto_detect either returns a complete platform (operating system    *)
(* set, backend inferred, every probed GPU held, one CPU entry) or raises  *)
(* the error of the step that failed and returns nothing, also when the    *)
(* CPU vendor fails to classify after GPUs were appended.                  *)
(***************************************************************************)
C9_AllOrNothing ==
    op = "auto_detect" =>
        \/ /\ outcome.status = "ok"
           /\ platform = outcome.value
           /\ platform.operating_system = built.os
           /\ platform.vulkan_backend = BackendOf(built.os)
           /\ Len(Held(platform, "GPU")) = Len(built.gpus)
           /\ Len(Held(platform, "CPU")) = 1
        \/ /\ outcome.status = "raised"
           /\ outcome.value = None
           /\ platform = NoPlatform
           /\ \/ /\ built.os \notin OperatingSystem
                 /\ outcome.error = NotAValid(built.os, "OperatingSystem")
              \/ /\ built.os \in OperatingSystem
                 /\ built.cpu.vendor_id_raw \notin HardwareVendor
                 /\ outcome.error = NotAValid(built.cpu.vendor_id_raw, "HardwareVendor")

C9_Witness ==
    /\ op = "auto_detect"
    /\ built.os = "Darwin"
    /\ Len(built.gpus) = 2
    /\ built.cpu.vendor_id_raw = "AuthenticAMD"
    /\ outcome.status = "raised"
    /\ outcome.error.type = "ValueError"
    /\ platform = NoPlatform

(***************************************************************************)
(* C10: get_active_hardware and the string rendering, whether they return  *)
(* or fail, leave the platform as it was: backend, operating system and    *)
(* hardware mapping, the keys of the mapping included.                     *)
(***************************************************************************)
C10_ReadsLeavePlatform ==
    [][op' \in {"get_active_hardware", "__str__"} => platform' = platform]_vars

====
